---- MODULE Spec2Model ----
(***************************************************************************)
(* The task store of Task Manager Pro (src/src/store/taskSlice.ts) and the *)
(* localStorage persistence helpers it calls (utils/storage).              *)
(*                                                                         *)
(* Conventions of the model                                                *)
(*   - an ISO timestamp is the integer clock reading it was made from;     *)
(*     every `new Date()` / `Date.now()` reads the clock, which never runs *)
(*     backwards. It may advance between two dispatches and, inside a      *)
(*     reducer, between the readings that stamp tasks; the readings of a   *)
(*     save fall in the tick of the reducer's last reading;                *)
(*   - a due date is a day number, or InvalidDate for a string that Date   *)
(*     cannot parse; the JavaScript null of a date or of lastSaved is      *)
(*     Null, the null of `error` is NoError, a localStorage key that is    *)
(*     not set is NullItem / the empty sequence;                           *)
(*   - Math.random() is a free choice among RandomSuffixes.                *)
(***************************************************************************)
EXTENDS Integers, Sequences, FiniteSets, TLC

\* ------------------------------------------------------------------ bounds
MaxClock == 1
MaxSteps == 2
MaxRandom == 2
MaxLen == 3
MaxFormSteps == 1

\* --------------------------------------------------------------- constants
Null == -1
NoError == "null"
NullItem == "null"
STORAGE_VERSION == "1.0"
Today == 1
InvalidDate == -2
NotFoundMsg == "Task not found"
SaveFailedMsg == "Failed to save tasks to localStorage"
ManualSaveFailedMsg == "Failed to save tasks to storage"
LoadFailedMsg == "Failed to load tasks from storage"

Priorities == {"low", "medium", "high"}
Filters == {"all", "active", "completed"}
SortKeys == {"priority", "dueDate", "createdAt", "title"}
TaskFields ==
  {"id", "title", "description", "completed", "priority", "dueDate",
   "createdAt", "updatedAt"}

Times == 0..MaxClock
RandomSuffixes == 1..MaxRandom

VARIABLES
  tasks,        \* state.tasks
  filter,       \* state.filter
  searchQuery,  \* state.searchQuery
  isLoading,    \* state.isLoading
  error,        \* state.error
  lastSaved,    \* state.lastSaved
  autoSave,     \* state.autoSave
  storage,      \* localStorage: the two keys the app uses
  now,          \* the last clock reading
  action,       \* the action object of the last dispatch: type, payload
  saveResult,   \* what the last dispatch did with saveTasks: none | ok | failed
  steps,        \* number of dispatches so far
  debouncedValue,  \* TaskFilters: the state of useDebounce(searchQuery, 300)
  debounceTimer,   \* TaskFilters: the value the pending setTimeout will set
  event,           \* the handler, effect or timer callback that ran last
  deleteTimers,    \* TaskItem: the ids whose delayed deleteTask is pending
  selectedTasks,   \* TaskList: selectedTasks, in insertion order
  effectDeps,      \* TaskFilters: the dependencies the effects last ran with
  showForm,        \* App: the task form is mounted
  editingTask,     \* App: the task handed to the form, if any
  formData,        \* TaskForm: the values of the inputs
  validationErrors \* TaskForm: the message shown under each field

\* the Redux store with localStorage and the clock
store ==
  <<steps, tasks, filter, searchQuery, isLoading, error, lastSaved, autoSave,
    storage, now, saveResult, action>>

\* the local state of the mounted components
filtersView == <<debouncedValue, debounceTimer, effectDeps>>
formView == <<showForm, editingTask, formData, validationErrors>>
listView == <<deleteTimers, selectedTasks>>
view == <<event, filtersView, formView, listView>>

vars == <<store, view>>

\* ----------------------------------------------------------------- helpers
Range(s) == {s[i] : i \in 1..Len(s)}
IdsOf(ts) == {ts[i].id : i \in 1..Len(ts)}
Has(ts, id) == \E i \in 1..Len(ts) : ts[i].id = id

\* Array.prototype.findIndex(task => task.id === id); 0 stands for -1
findIndex(ts, id) ==
  IF Has(ts, id)
  THEN CHOOSE i \in 1..Len(ts) :
         /\ ts[i].id = id
         /\ \A j \in 1..(i - 1) : ts[j].id # id
  ELSE 0

\* the object spread {...task, ...updates}
Spread(task, updates) ==
  [f \in DOMAIN task \cup DOMAIN updates |->
     IF f \in DOMAIN updates THEN updates[f] ELSE task[f]]

\* `task_${Date.now()}_${Math.random().toString(36).substr(2, 9)}`
GenId(t, r) == "task_" \o ToString(t) \o "_" \o ToString(r)

\* `${title} (Copy)`
CopyTitle(title) == title \o " (Copy)"


\* ------------------------------------------------------- utils/storage.ts
\* isValidTask: the typeof checks hold of every value the model builds, so a
\* record is invalid by a missing field or a priority outside the list
isValidTask(task) ==
  /\ DOMAIN task = TaskFields
  /\ task.completed \in BOOLEAN
  /\ task.priority \in Priorities

\* the StorageData document saveTasks serialises
StorageData(ts, t) ==
  [tasks |-> ts, version |-> STORAGE_VERSION, lastUpdated |-> t]

isValidStorageData(data) ==
  /\ DOMAIN data = {"tasks", "version", "lastUpdated"}
  /\ \A i \in 1..Len(data.tasks) : isValidTask(data.tasks[i])

EmptyStorage == [data |-> <<>>, version |-> NullItem]

\* localStorage of an origin whose storage access the browser denies: every
\* getItem, setItem and removeItem throws
AccessDenied == [data |-> <<>>, version |-> "SecurityError"]

\* clearTasks(): both keys removed
clearTasks(st) == EmptyStorage

\* saveTasks(tasks) with the clock reading t taken for lastUpdated: the set of
\* outcomes. localStorage.setItem can throw (quota, storage disabled) at the
\* first call, or at the second when that one has a new value to store; the
\* catch turns both into `false`.
saveTasks(st, ts, t) ==
  LET written == [data |-> <<StorageData(ts, t)>>, version |-> STORAGE_VERSION]
  IN  IF st = AccessDenied
      THEN {[success |-> FALSE, storage |-> st]}
      ELSE { [success |-> TRUE, storage |-> written],
             [success |-> FALSE, storage |-> st] }
           \cup IF st.version # STORAGE_VERSION
                THEN {[success |-> FALSE, storage |-> [st EXCEPT !.data = written.data]]}
                ELSE {}

\* a value under the tasks key that JSON.parse rejects
CorruptDocument == [text |-> "{tasks:"]

Parses(serializedData) == "text" \notin DOMAIN serializedData

\* loadTasks(): the tasks returned and the storage left behind. When getItem
\* throws, or JSON.parse throws on a corrupt value, the catch calls
\* clearTasks() and returns []; under denied access removeItem throws as
\* well and clearTasks catches it.
loadTasks(st) ==
  IF st = AccessDenied
  THEN [tasks |-> <<>>, storage |-> st]
  ELSE IF st.data = <<>>
  THEN [tasks |-> <<>>, storage |-> st]
  ELSE IF st.version # STORAGE_VERSION
  THEN [tasks |-> <<>>, storage |-> clearTasks(st)]
  ELSE IF ~Parses(st.data[1])
  THEN [tasks |-> <<>>, storage |-> clearTasks(st)]
  ELSE IF ~isValidStorageData(st.data[1])
  THEN [tasks |-> <<>>, storage |-> clearTasks(st)]
  ELSE [tasks |-> SelectSeq(st.data[1].tasks, isValidTask), storage |-> st]

\* ------------------------------------------------- store/taskSlice.ts: init
Task(id, title, description, completed, priority, dueDate, createdAt, updatedAt) ==
  [id |-> id, title |-> title, description |-> description,
   completed |-> completed, priority |-> priority, dueDate |-> dueDate,
   createdAt |-> createdAt, updatedAt |-> updatedAt]

\* the three tasks loadInitialTasks falls back to, built at clock reading t
DefaultTasks(t) ==
  << Task("1", "Complete Redux setup",
          "Set up Redux store and task slice for state management",
          TRUE, "high", Today, t, t),
     Task("2", "Design task interface",
          "Create a beautiful and intuitive task management interface",
          FALSE, "medium", Null, t, t),
     Task("3", "Add CRUD operations",
          "Implement create, read, update, and delete functionality",
          FALSE, "high", Today + 7, t, t) >>

loadInitialTasks(st, t) ==
  LET loaded == loadTasks(st)
  IN  [tasks |-> IF Len(loaded.tasks) > 0 THEN loaded.tasks ELSE DefaultTasks(t),
       storage |-> loaded.storage]

\* what localStorage can hold when the application starts: nothing, a list
\* saved by an earlier session, a document of an older version
SavedTasks ==
  << Task("1", "Write tests", "", FALSE, "low", Null, 0, 0) >>

InitialStorages ==
  { EmptyStorage,
    [data |-> <<StorageData(SavedTasks, 0)>>, version |-> STORAGE_VERSION],
    [data |-> <<StorageData(SavedTasks, 0)>>, version |-> "0.9"] }

UnknownId == "404"
NoAction == [type |-> "@@INIT", id |-> "", payload |-> ""]

\* TaskForm's useState initial values
EmptyForm ==
  [title |-> "", description |-> "", priority |-> "medium", dueDate |-> Null]

\* validationErrors = {}: no field has a message
NoErrors == [f \in {} |-> ""]

\* the components after their first render and its effects: TaskFilters has
\* debounced the initial query and its timer for that value is running
Mounted ==
  /\ event = [name |-> "mount"]
  /\ deleteTimers = {}
  /\ selectedTasks = <<>>
  /\ debouncedValue = ""
  /\ debounceTimer = <<"">>
  /\ effectDeps = [searchQuery |-> "", debouncedSearchQuery |-> ""]
  /\ showForm = FALSE
  /\ editingTask = <<>>
  /\ formData = EmptyForm
  /\ validationErrors = NoErrors

\* initialState of a session that finds st in localStorage, with the
\* components mounted
InitialState(st) ==
  LET r == loadInitialTasks(st, 0)
  IN  /\ tasks = r.tasks
      /\ storage = r.storage
      /\ filter = "all"
      /\ searchQuery = ""
      /\ isLoading = FALSE
      /\ error = NoError
      /\ lastSaved = Null
      /\ autoSave = TRUE
      /\ now = 0
      /\ action = NoAction
      /\ saveResult = "none"
      /\ steps = 0
      /\ Mounted

Init == \E st \in InitialStorages : InitialState(st)

\* --------------------------------------------- store/taskSlice.ts: reducers
\* _saveTasksToStorageInternal(tasks, state) run at clock reading t; auto is
\* state.autoSave as the helper finds it
saveTasksToStorageInternal(auto, ts, t) ==
  IF auto
  THEN \E out \in saveTasks(storage, ts, t) :
         /\ storage' = out.storage
         /\ now' = t
         /\ IF out.success
              THEN /\ lastSaved' = t
                   /\ error' = error
                   /\ saveResult' = "ok"
              ELSE /\ lastSaved' = lastSaved
                   /\ error' = SaveFailedMsg
                   /\ saveResult' = "failed"
  ELSE /\ storage' = storage
       /\ lastSaved' = lastSaved
       /\ now' = t
       /\ error' = error
       /\ saveResult' = "none"

\* a tail that hands the list as it was before the reducer changed it
CommitSavesOldList(newTasks, t) ==
  /\ tasks' = newTasks
  /\ saveTasksToStorageInternal(autoSave, tasks, t)

\* a tail that undoes the change when the write fails
CommitRollsBack(newTasks, t) ==
  /\ saveTasksToStorageInternal(autoSave, newTasks, t)
  /\ tasks' = IF saveResult' = "failed" THEN tasks ELSE newTasks

\* the tail of every mutating reducer: the draft's task list becomes
\* state.tasks and is handed to _saveTasksToStorageInternal
Commit(newTasks, t) ==
  /\ tasks' = newTasks
  /\ saveTasksToStorageInternal(autoSave, newTasks, t)

\* the same for a reducer that stamps no task: the save takes the first
\* clock reading of the dispatch
CommitNow(newTasks) ==
  \E t \in now..MaxClock : Commit(newTasks, t)

\* a not-found branch that stamps lastSaved as if it had saved
NotFoundTouchesLastSaved ==
  /\ error' = NotFoundMsg
  /\ saveResult' = "none"
  /\ lastSaved' = now
  /\ UNCHANGED <<tasks, storage, now>>

\* the else branch of the reducers that look a task up
NotFound ==
  /\ error' = NotFoundMsg
  /\ saveResult' = "none"
  /\ UNCHANGED <<tasks, storage, lastSaved, now>>

\* bookkeeping of one dispatch: the action object {type, payload}; the id of
\* a payload is kept apart ("" when it has none), payload is the rest of it
Dispatch(type, id, payload) ==
  /\ steps < MaxSteps
  /\ steps' = steps + 1
  /\ action' = [type |-> type, id |-> id, payload |-> payload]

\* the ids a view can dispatch with: a task on screen, the id of the previous
\* dispatch (a task item that is already gone), an id no task ever had
TargetIds ==
  IdsOf(tasks) \cup {UnknownId}
    \cup IF action.id # "" THEN {action.id} ELSE {}

\* a loop that unshifts the new tasks one by one: the block ends up reversed
unshiftEach(ts, items) ==
  [k \in 1..Len(items) |-> items[Len(items) + 1 - k]] \o ts

\* state.tasks.unshift(...items)
unshift(ts, items) == items \o ts

\* payloads of addTask / addMultipleTasks
NewTaskData ==
  { [title |-> "Write tests", description |-> "", completed |-> FALSE,
     priority |-> "low", dueDate |-> Null],
    [title |-> "Add CRUD operations", description |-> "again",
     completed |-> TRUE, priority |-> "medium", dueDate |-> Today] }

\* the object literal of addTask / addMultipleTasks: Date.now() for the id at
\* tId, Math.random() r, createdAt read at tC, updatedAt read at tU
NewTask(data, tId, r, tC, tU) ==
  Spread(data, [id |-> GenId(tId, r), createdAt |-> tC, updatedAt |-> tU])

\* dispatch(addTask(data))
dispatchAddTask(data) ==
  \E r \in RandomSuffixes :
    \E tId \in now..MaxClock :
      \E tC \in tId..MaxClock :
        \E tU \in tC..MaxClock :
          /\ Dispatch("addTask", "", data)
          /\ Commit(unshift(tasks, <<NewTask(data, tId, r, tC, tU)>>), tU)
          /\ UNCHANGED <<filter, searchQuery, isLoading, autoSave>>

addTask ==
  \E data \in NewTaskData : dispatchAddTask(data)

\* clock readings of a map over n payloads: three per payload, in order
ClockReadings(n, t) ==
  { rd \in [1..n -> [tId : t..MaxClock, tC : t..MaxClock, tU : t..MaxClock]] :
      \A i \in 1..n :
        /\ rd[i].tId <= rd[i].tC
        /\ rd[i].tC <= rd[i].tU
        /\ i > 1 => rd[i - 1].tU <= rd[i].tId }

\* payloads of addMultipleTasks
NewTaskLists ==
  { <<>> } \cup { <<d>> : d \in NewTaskData }
    \cup { dd \in NewTaskData \X NewTaskData : dd[1].completed /\ ~dd[2].completed }

addMultipleTasks ==
  \E payload \in NewTaskLists :
    \E rs \in [1..Len(payload) -> RandomSuffixes] :
      \E rd \in ClockReadings(Len(payload), now) :
        LET n == Len(payload)
            newTasks ==
              [i \in 1..n |->
                 NewTask(payload[i], rd[i].tId, rs[i], rd[i].tC, rd[i].tU)]
        IN  /\ Dispatch("addMultipleTasks", "", payload)
            /\ IF n = 0
               THEN CommitNow(tasks)
               ELSE Commit(unshift(tasks, newTasks), rd[n].tU)
            /\ UNCHANGED <<filter, searchQuery, isLoading, autoSave>>

\* a setFilter that ends like the mutating reducers, with the save helper
setFilterThenSave ==
  \E f \in Filters :
    /\ Dispatch("setFilter", "", f)
    /\ filter' = f
    /\ CommitNow(tasks)
    /\ UNCHANGED <<searchQuery, isLoading, autoSave>>

setFilter ==
  \E f \in Filters :
    /\ Dispatch("setFilter", "", f)
    /\ filter' = f
    /\ saveResult' = "none"
    /\ UNCHANGED <<tasks, searchQuery, isLoading, error, lastSaved, autoSave,
                   storage, now>>

SearchQueries == {"", "test", "crud", "REDUX"}

\* dispatch(setSearchQuery(q))
dispatchSetSearchQuery(q) ==
  /\ Dispatch("setSearchQuery", "", q)
  /\ searchQuery' = q
  /\ saveResult' = "none"
  /\ UNCHANGED <<tasks, filter, isLoading, error, lastSaved, autoSave,
                 storage, now>>

setSearchQuery ==
  \E q \in SearchQueries : dispatchSetSearchQuery(q)

\* the titles of the model in the order of String.prototype.localeCompare;
\* a title followed by " (Copy)" sorts right after the title itself
BaseTitles ==
  << "Add CRUD operations", "Complete Redux setup", "Design task interface",
     "Write tests" >>

RECURSIVE Copies(_, _)
Copies(title, k) == IF k = 0 THEN title ELSE CopyTitle(Copies(title, k - 1))

TitleRank(title) ==
  LET p == CHOOSE q \in (1..Len(BaseTitles)) \X (0..MaxSteps) :
             Copies(BaseTitles[q[1]], q[2]) = title
  IN  p[1] * (MaxSteps + 1) + p[2]

localeCompare(a, b) == TitleRank(a) - TitleRank(b)

priorityOrder == [high |-> 3, medium |-> 2, low |-> 1]

\* new Date(x).getTime() - new Date(y).getTime() as the sort reads it: the
\* time of a string that is no date is NaN, and sort takes a NaN from its
\* comparator as +0
dateDiff(x, y) == IF InvalidDate \in {x, y} THEN 0 ELSE x - y

\* a comparator with the operands of the priority case exchanged
compareLowFirst(sortBy, a, b) ==
  CASE sortBy = "priority" ->
         priorityOrder[a.priority] - priorityOrder[b.priority]
    [] sortBy = "dueDate" ->
         IF a.dueDate = Null /\ b.dueDate = Null THEN 0
         ELSE IF a.dueDate = Null THEN 1
         ELSE IF b.dueDate = Null THEN -1
         ELSE dateDiff(a.dueDate, b.dueDate)
    [] sortBy = "createdAt" -> b.createdAt - a.createdAt
    [] sortBy = "title" -> TitleRank(a.title) - TitleRank(b.title)
    [] OTHER -> 0

\* the comparator of sortTasks; a null due date is falsy
compare(sortBy, a, b) ==
  CASE sortBy = "priority" ->
         priorityOrder[b.priority] - priorityOrder[a.priority]
    [] sortBy = "dueDate" ->
         IF a.dueDate = Null /\ b.dueDate = Null THEN 0
         ELSE IF a.dueDate = Null THEN 1
         ELSE IF b.dueDate = Null THEN -1
         ELSE dateDiff(a.dueDate, b.dueDate)
    [] sortBy = "createdAt" -> b.createdAt - a.createdAt
    [] sortBy = "title" -> localeCompare(a.title, b.title)
    [] OTHER -> 0

\* Array.prototype.sort is stable: x goes behind every element that does not
\* compare greater than it
RECURSIVE Insert(_, _, _)
Insert(sortBy, sorted, x) ==
  IF sorted = <<>> THEN <<x>>
  ELSE IF compare(sortBy, sorted[Len(sorted)], x) <= 0 THEN Append(sorted, x)
  ELSE Append(Insert(sortBy, SubSeq(sorted, 1, Len(sorted) - 1), x),
              sorted[Len(sorted)])

RECURSIVE Sort(_, _)
Sort(sortBy, ts) ==
  IF ts = <<>> THEN <<>>
  ELSE Insert(sortBy, Sort(sortBy, SubSeq(ts, 1, Len(ts) - 1)), ts[Len(ts)])

\* the comparator is a consistent comparator (ECMAScript, Array.prototype.sort)
\* for the tasks of ts: it orders them as a strict weak order
Consistent(sortBy, ts) ==
  \A a, b, c \in Range(ts) :
    /\ compare(sortBy, a, a) = 0
    /\ compare(sortBy, a, b) < 0 <=> compare(sortBy, b, a) > 0
    /\ (compare(sortBy, a, b) = 0 /\ compare(sortBy, b, c) = 0)
         => compare(sortBy, a, c) = 0
    /\ (compare(sortBy, a, b) < 0 /\ compare(sortBy, b, c) < 0)
         => compare(sortBy, a, c) < 0
    /\ (compare(sortBy, a, b) = 0 /\ compare(sortBy, b, c) < 0)
         => compare(sortBy, a, c) < 0
    /\ (compare(sortBy, a, b) < 0 /\ compare(sortBy, b, c) = 0)
         => compare(sortBy, a, c) < 0

\* what state.tasks.sort(comparator) can leave: the stable sort when the
\* comparator is consistent, and otherwise an order the engine is free to
\* choose, that is any permutation of the list
SortOutcomes(sortBy, ts) ==
  IF Consistent(sortBy, ts)
  THEN {Sort(sortBy, ts)}
  ELSE {[i \in 1..Len(ts) |-> ts[p[i]]] : p \in Permutations(1..Len(ts))}

sortTasks ==
  \E sortBy \in SortKeys :
    /\ Dispatch("sortTasks", "", sortBy)
    /\ \E sorted \in SortOutcomes(sortBy, tasks) : CommitNow(sorted)
    /\ UNCHANGED <<filter, searchQuery, isLoading, autoSave>>

\* payloads of updateTask: Partial<Task>, which admits every field of Task
TaskUpdates ==
  { [title |-> "Write tests", description |-> "", priority |-> "low",
     dueDate |-> Today],
    [id |-> "1"],
    [createdAt |-> MaxClock, updatedAt |-> 0] }

\* dispatch(updateTask({id, updates}))
dispatchUpdateTask(id, updates) ==
  LET taskIndex == findIndex(tasks, id)
  IN  /\ Dispatch("updateTask", id, updates)
      /\ IF taskIndex # 0
         THEN \E t \in now..MaxClock :
                Commit(
                  [tasks EXCEPT ![taskIndex] =
                     Spread(Spread(tasks[taskIndex], updates),
                            [updatedAt |-> t])],
                  t)
         ELSE NotFound
      /\ UNCHANGED <<filter, searchQuery, isLoading, autoSave>>

updateTask ==
  \E id \in TargetIds, updates \in TaskUpdates : dispatchUpdateTask(id, updates)

toggleTask ==
  \E id \in TargetIds :
    LET i == findIndex(tasks, id)
    IN  /\ Dispatch("toggleTask", id, "")
        /\ IF i # 0
           THEN \E t \in now..MaxClock :
                  Commit(
                    [tasks EXCEPT ![i].completed = ~tasks[i].completed,
                                  ![i].updatedAt = t],
                    t)
           ELSE NotFound
        /\ UNCHANGED <<filter, searchQuery, isLoading, autoSave>>

\* ids.forEach of toggleMultipleTasks from position k on; rd[k] is the clock
\* reading taken for the k-th id when it matches a task
RECURSIVE ToggleEach(_, _, _, _, _)
ToggleEach(ts, ids, completed, rd, k) ==
  IF k > Len(ids) THEN ts
  ELSE LET i == findIndex(ts, ids[k])
       IN  ToggleEach(
             IF i # 0
             THEN [ts EXCEPT ![i].completed = completed, ![i].updatedAt = rd[k]]
             ELSE ts,
             ids, completed, rd, k + 1)

\* the id lists Array.from(selectedTasks) can hand over, for a selection of
\* at most two: tasks in list order, with an id that is gone last
IdLists ==
  {<<>>} \cup {<<a>> : a \in TargetIds}
    \cup {<<tasks[p[1]].id, tasks[p[2]].id>> :
            p \in {q \in (1..Len(tasks)) \X (1..Len(tasks)) : q[1] < q[2]}}
    \cup {<<tasks[i].id, UnknownId>> : i \in 1..Len(tasks)}

\* dispatch(toggleMultipleTasks({ids, completed}))
dispatchToggleMultipleTasks(ids, completed) ==
  \E rd \in [1..Len(ids) -> now..MaxClock] :
    /\ \A k \in 2..Len(ids) : rd[k - 1] <= rd[k]
    /\ Dispatch("toggleMultipleTasks", "",
                [ids |-> ids, completed |-> completed])
    /\ IF ids = <<>>
       THEN CommitNow(tasks)
       ELSE Commit(ToggleEach(tasks, ids, completed, rd, 1), rd[Len(ids)])
    /\ UNCHANGED <<filter, searchQuery, isLoading, autoSave>>

toggleMultipleTasks ==
  \E ids \in IdLists, completed \in BOOLEAN :
    dispatchToggleMultipleTasks(ids, completed)

updateTaskPriority ==
  \E id \in TargetIds, priority \in Priorities :
    LET i == findIndex(tasks, id)
    IN  /\ Dispatch("updateTaskPriority", id, priority)
        /\ IF i # 0
           THEN \E t \in now..MaxClock :
                  Commit(
                    [tasks EXCEPT ![i].priority = priority, ![i].updatedAt = t],
                    t)
           ELSE NotFound
        /\ UNCHANGED <<filter, searchQuery, isLoading, autoSave>>

\* dispatch(deleteTask(id))
dispatchDeleteTask(id) ==
  LET remaining == SelectSeq(tasks, LAMBDA task : task.id # id)
  IN  /\ Dispatch("deleteTask", id, "")
      /\ IF Len(remaining) = Len(tasks)
         THEN NotFound
         ELSE CommitNow(remaining)
      /\ UNCHANGED <<filter, searchQuery, isLoading, autoSave>>

deleteTask ==
  \E id \in TargetIds : dispatchDeleteTask(id)

\* dispatch(deleteMultipleTasks(ids))
dispatchDeleteMultipleTasks(ids) ==
  LET idsToDelete == Range(ids)
  IN  /\ Dispatch("deleteMultipleTasks", "", ids)
      /\ CommitNow(SelectSeq(tasks, LAMBDA task : task.id \notin idsToDelete))
      /\ UNCHANGED <<filter, searchQuery, isLoading, autoSave>>

deleteMultipleTasks ==
  \E ids \in IdLists : dispatchDeleteMultipleTasks(ids)

\* a filter with the predicate the wrong way round: the completed tasks stay
clearCompletedKeepsCompleted ==
  /\ Dispatch("clearCompleted", "", "")
  /\ CommitNow(SelectSeq(tasks, LAMBDA task : task.completed))
  /\ UNCHANGED <<filter, searchQuery, isLoading, autoSave>>

clearCompleted ==
  /\ Dispatch("clearCompleted", "", "")
  /\ CommitNow(SelectSeq(tasks, LAMBDA task : ~task.completed))
  /\ UNCHANGED <<filter, searchQuery, isLoading, autoSave>>

clearAllTasks ==
  /\ Dispatch("clearAllTasks", "", "")
  /\ CommitNow(<<>>)
  /\ UNCHANGED <<filter, searchQuery, isLoading, autoSave>>

duplicateTask ==
  \E id \in TargetIds :
    LET i == findIndex(tasks, id)
    IN  /\ Dispatch("duplicateTask", id, "")
        /\ IF i # 0
           THEN \E r \in RandomSuffixes :
                  \E tId \in now..MaxClock :
                    \E tC \in tId..MaxClock :
                      \E tU \in tC..MaxClock :
                        Commit(
                          unshift(tasks,
                                  <<Spread(tasks[i],
                                           [id |-> GenId(tId, r),
                                            title |-> CopyTitle(tasks[i].title),
                                            completed |-> FALSE,
                                            createdAt |-> tC,
                                            updatedAt |-> tU])>>),
                          tU)
           ELSE NotFound
        /\ UNCHANGED <<filter, searchQuery, isLoading, autoSave>>

\* loadTasks catches whatever localStorage throws, so the catch branch of
\* this reducer is never entered
loadTasksFromStorage ==
  LET loaded == loadTasks(storage)
  IN  \E t \in now..MaxClock :
        /\ Dispatch("loadTasksFromStorage", "", "")
        /\ tasks' = loaded.tasks
        /\ storage' = loaded.storage
        /\ lastSaved' = t
        /\ now' = t
        /\ error' = NoError
        /\ saveResult' = "none"
        /\ UNCHANGED <<filter, searchQuery, isLoading, autoSave>>

saveTasksToStorage ==
  \E tSave \in now..MaxClock :
    \E out \in saveTasks(storage, tasks, tSave) :
      /\ Dispatch("saveTasksToStorage", "", "")
      /\ storage' = out.storage
      /\ now' = tSave
      /\ IF out.success
         THEN /\ lastSaved' = tSave
              /\ error' = NoError
              /\ saveResult' = "ok"
         ELSE /\ lastSaved' = lastSaved
              /\ error' = ManualSaveFailedMsg
              /\ saveResult' = "failed"
      /\ UNCHANGED <<tasks, filter, searchQuery, isLoading, autoSave>>

\* payloads of importTasks: what utils/storage importTasks lets through, that
\* is every list of records isValidTask accepts. Ids may repeat and the
\* timestamps are whatever the file says.
ImportedTask(id, createdAt, updatedAt) ==
  Task(id, "Write tests", "", FALSE, "low", Null, createdAt, updatedAt)

ImportPayloads ==
  { <<>>,
    << ImportedTask("1", 0, MaxClock) >>,
    << ImportedTask("1", MaxClock, 0), ImportedTask("2", 0, 0) >>,
    << ImportedTask("2", 0, 0), ImportedTask("2", 0, MaxClock) >> }

\* dispatch(importTasks(payload))
dispatchImportTasks(payload) ==
  /\ Dispatch("importTasks", "", payload)
  /\ CommitNow(payload)
  /\ UNCHANGED <<filter, searchQuery, isLoading, autoSave>>

importTasks ==
  \E payload \in ImportPayloads : dispatchImportTasks(payload)

\* a toggle that only flips the flag
toggleAutoSaveWithoutSave ==
  /\ Dispatch("toggleAutoSave", "", "")
  /\ autoSave' = ~autoSave
  /\ saveResult' = "none"
  /\ UNCHANGED <<tasks, storage, lastSaved, now, error, filter, searchQuery,
                 isLoading>>

toggleAutoSave ==
  /\ Dispatch("toggleAutoSave", "", "")
  /\ autoSave' = ~autoSave
  /\ tasks' = tasks
  /\ IF autoSave'
     THEN \E t \in now..MaxClock :
            saveTasksToStorageInternal(autoSave', tasks, t)
     ELSE /\ saveResult' = "none"
          /\ UNCHANGED <<storage, lastSaved, now, error>>
  /\ UNCHANGED <<filter, searchQuery, isLoading>>

clearError ==
  /\ Dispatch("clearError", "", "")
  /\ error' = NoError
  /\ saveResult' = "none"
  /\ UNCHANGED <<tasks, filter, searchQuery, isLoading, lastSaved, autoSave,
                 storage, now>>

setLoading ==
  \E b \in BOOLEAN :
    /\ Dispatch("setLoading", "", b)
    /\ isLoading' = b
    /\ saveResult' = "none"
    /\ UNCHANGED <<tasks, filter, searchQuery, error, lastSaved, autoSave,
                   storage, now>>

Next ==
  \/ importTasks /\ UNCHANGED view
  \/ addTask /\ UNCHANGED view
  \/ addMultipleTasks /\ UNCHANGED view
  \/ setFilter /\ UNCHANGED view
  \/ setSearchQuery /\ UNCHANGED view
  \/ sortTasks /\ UNCHANGED view
  \/ updateTask /\ UNCHANGED view
  \/ toggleTask /\ UNCHANGED view
  \/ toggleMultipleTasks /\ UNCHANGED view
  \/ updateTaskPriority /\ UNCHANGED view
  \/ deleteTask /\ UNCHANGED view
  \/ deleteMultipleTasks /\ UNCHANGED view
  \/ clearCompleted /\ UNCHANGED view
  \/ clearAllTasks /\ UNCHANGED view
  \/ duplicateTask /\ UNCHANGED view
  \/ loadTasksFromStorage /\ UNCHANGED view
  \/ saveTasksToStorage /\ UNCHANGED view
  \/ toggleAutoSave /\ UNCHANGED view
  \/ clearError /\ UNCHANGED view
  \/ setLoading /\ UNCHANGED view

Spec == Init /\ [][Next]_vars

\* ------------------------------------------ sorting, over every short list
\* a stored task: its position gives the id and the title, so a stored list
\* is in title order
StoredTask(i, priority, dueDate) ==
  Task(ToString(i), BaseTitles[i], "", FALSE, priority, dueDate, 0, 0)

DueDates == {Null, Today, Today + 7, InvalidDate}

\* the lists an earlier session can have stored: every choice of priority and
\* due date for up to MaxLen tasks
StoredLists ==
  UNION { { [i \in 1..n |-> StoredTask(i, c[i][1], c[i][2])] :
              c \in [1..n -> Priorities \X DueDates] } : n \in 0..MaxLen }

SortInit ==
  \E ts \in StoredLists :
    InitialState([data |-> <<StorageData(ts, 0)>>, version |-> STORAGE_VERSION])

SortNext == sortTasks /\ UNCHANGED view

SortSpec == SortInit /\ [][SortNext]_vars

\* ------------------------------------- loading, over every short document
\* a stored record that is no Task: the priority is not one of the three
BadPriorityRecord(i) == StoredTask(i, "urgent", Null)

\* a stored record that is no Task: the field completed is missing
IncompleteRecord(i) ==
  [f \in TaskFields \ {"completed"} |-> StoredTask(i, "low", Null)[f]]

\* what position i of a stored list can hold: two tasks and two records
\* isValidTask rejects
StoredRecords(i) ==
  { StoredTask(i, "low", Null), StoredTask(i, "high", Today),
    BadPriorityRecord(i), IncompleteRecord(i) }

\* what the tasks key can hold beside a version key of the current version:
\* a corrupt value, or a document with up to MaxLen records
StoredDocuments ==
  {CorruptDocument} \cup
  UNION { { StorageData([i \in 1..n |-> c[i]], 0) :
              c \in { d \in [1..n -> UNION {StoredRecords(i) : i \in 1..n}] :
                        \A i \in 1..n : d[i] \in StoredRecords(i) } } :
          n \in 0..MaxLen }

\* localStorage is shared by everything that runs on the origin: another tab,
\* another build of the application or the user's tools put a document
\* under the key while the session runs
storageWrittenElsewhere ==
  \E doc \in StoredDocuments :
    /\ storage' = [data |-> <<doc>>, version |-> STORAGE_VERSION]
    /\ storage' # storage
    /\ UNCHANGED <<steps, tasks, filter, searchQuery, isLoading, error,
                   lastSaved, autoSave, now, saveResult, action>>
    /\ UNCHANGED view

\* the browser starts to deny the origin its storage (site data blocked,
\* a sandboxed frame)
storageAccessDenied ==
  /\ storage # AccessDenied
  /\ storage' = AccessDenied
  /\ UNCHANGED <<steps, tasks, filter, searchQuery, isLoading, error,
                 lastSaved, autoSave, now, saveResult, action>>
  /\ UNCHANGED view

LoadNext ==
  \/ storageWrittenElsewhere
  \/ storageAccessDenied
  \/ loadTasksFromStorage /\ UNCHANGED view

LoadSpec == Init /\ [][LoadNext]_vars

\* ------------------------------------------------- components/TaskList.tsx
UpperCaseLetters == "ABCDEFGHIJKLMNOPQRSTUVWXYZ"
LowerCaseLetters == "abcdefghijklmnopqrstuvwxyz"

\* the character at position i of a string, as a string of length one
CharAt(s, i) == SubSeq(s, i, i)

\* String.prototype.toLowerCase, over the ASCII letters
RECURSIVE toLowerCase(_)
toLowerCase(s) ==
  IF s = "" THEN ""
  ELSE LET c == CharAt(s, 1)
           lower ==
             IF \E i \in 1..Len(UpperCaseLetters) : CharAt(UpperCaseLetters, i) = c
             THEN CharAt(LowerCaseLetters,
                         CHOOSE i \in 1..Len(UpperCaseLetters) :
                           CharAt(UpperCaseLetters, i) = c)
             ELSE c
       IN  lower \o toLowerCase(SubSeq(s, 2, Len(s)))

\* String.prototype.includes
includes(s, q) ==
  \E i \in 0..(Len(s) - Len(q)) : SubSeq(s, i + 1, i + Len(q)) = q

\* a filteredTasks that compares the strings as they are
filteredTasksCaseSensitive(ts, f, q) ==
  SelectSeq(ts, LAMBDA task :
    LET matchesSearch ==
          \/ q = ""
          \/ includes(task.title, q)
          \/ includes(task.description, q)
        matchesFilter ==
          \/ f = "all"
          \/ (f = "active" /\ ~task.completed)
          \/ (f = "completed" /\ task.completed)
    IN  matchesSearch /\ matchesFilter)

\* filteredTasks of TaskList for the store's tasks, filter and searchQuery
filteredTasks(ts, f, q) ==
  SelectSeq(ts, LAMBDA task :
    LET matchesSearch ==
          \/ q = ""
          \/ includes(toLowerCase(task.title), toLowerCase(q))
          \/ includes(toLowerCase(task.description), toLowerCase(q))
        matchesFilter ==
          \/ f = "all"
          \/ (f = "active" /\ ~task.completed)
          \/ (f = "completed" /\ task.completed)
    IN  matchesSearch /\ matchesFilter)

\* ------------------------------------ utils/storage.ts: export and import
\* The JSON text of an object is modelled member by member: a function from
\* each key to the text of its value, and the text of a value is the string
\* JSON.stringify writes for it. Strings are of printable ASCII characters.
Quote == "\""
Backslash == "\\"

\* a stringify that copies the characters as they are
CopyRange(s, lo, hi) == SubSeq(s, lo, hi)

\* the body of a JSON string literal for the characters lo..hi of s: " and \
\* get a backslash in front (the range is halved to keep the recursion flat)
RECURSIVE EscapeRange(_, _, _)
EscapeRange(s, lo, hi) ==
  IF lo > hi THEN ""
  ELSE IF lo = hi
  THEN (IF CharAt(s, lo) \in {Quote, Backslash} THEN Backslash ELSE "")
         \o CharAt(s, lo)
  ELSE EscapeRange(s, lo, (lo + hi) \div 2)
         \o EscapeRange(s, (lo + hi) \div 2 + 1, hi)

\* JSON.stringify of a string
stringifyString(s) == Quote \o EscapeRange(s, 1, Len(s)) \o Quote

\* the number of backslashes that stand directly before position i
BackslashesBefore(s, i) ==
  CHOOSE k \in 0..(i - 1) :
    /\ \A j \in (i - k)..(i - 1) : CharAt(s, j) = Backslash
    /\ (k < i - 1 => CharAt(s, i - k - 1) # Backslash)

\* position i holds the backslash that starts an escape sequence
StartsEscape(s, i) ==
  CharAt(s, i) = Backslash /\ BackslashesBefore(s, i) % 2 = 0

\* the characters lo..hi of a literal's body without the backslashes that
\* start an escape sequence
RECURSIVE UnescapeRange(_, _, _)
UnescapeRange(s, lo, hi) ==
  IF lo > hi THEN ""
  ELSE IF lo = hi
  THEN (IF StartsEscape(s, lo) THEN "" ELSE CharAt(s, lo))
  ELSE UnescapeRange(s, lo, (lo + hi) \div 2)
         \o UnescapeRange(s, (lo + hi) \div 2 + 1, hi)

\* the string a literal's body stands for; ok is FALSE where JSON.parse
\* throws a SyntaxError: a bare quote, or a backslash that is not followed
\* by " or \
Unescape(s) ==
  [ok |-> \A i \in 1..Len(s) :
            /\ (CharAt(s, i) = Quote => BackslashesBefore(s, i) % 2 = 1)
            /\ (StartsEscape(s, i) =>
                  i < Len(s) /\ CharAt(s, i + 1) \in {Quote, Backslash}),
   value |-> UnescapeRange(s, 1, Len(s))]

\* JSON.parse of a text that has to be a string literal
parseString(text) ==
  IF Len(text) >= 2 /\ CharAt(text, 1) = Quote /\ CharAt(text, Len(text)) = Quote
  THEN Unescape(SubSeq(text, 2, Len(text) - 1))
  ELSE [ok |-> FALSE, value |-> ""]

\* the string a timestamp or a due date of the model stands for, and back
DateString(d) == IF d = InvalidDate THEN "soon" ELSE ToString(d)

DateOf(str) ==
  CHOOSE d \in {InvalidDate} \cup (0..(Today + 7)) : DateString(d) = str

StringFields == {"id", "title", "description", "priority"}

\* JSON.stringify of one task
stringifyTask(task) ==
  [f \in TaskFields |->
     IF f \in StringFields THEN stringifyString(task[f])
     ELSE IF f = "completed" THEN (IF task[f] THEN "true" ELSE "false")
     ELSE IF task[f] = Null THEN "null"
     ELSE stringifyString(DateString(task[f]))]

\* exportTasks(tasks) at clock reading t
exportTasks(ts, t) ==
  [tasks |-> [i \in 1..Len(ts) |-> stringifyTask(ts[i])],
   exportedAt |-> stringifyString(DateString(t)),
   version |-> stringifyString(STORAGE_VERSION),
   appName |-> stringifyString("Task Manager Pro")]

\* the literals JSON.parse accepts in the text of a task
WellFormed(text) ==
  \A f \in DOMAIN text :
    \/ text[f] \in {"null", "true", "false"}
    \/ parseString(text[f]).ok

\* JSON.parse of one task's text: the value of each member
parseTask(text) ==
  [f \in DOMAIN text |->
     IF f = "completed" /\ text[f] \in {"true", "false"} THEN text[f] = "true"
     ELSE IF text[f] = "null" THEN Null
     ELSE IF f \in StringFields THEN parseString(text[f]).value
     ELSE DateOf(parseString(text[f]).value)]

\* importTasks(jsonString) of utils/storage: ok is FALSE where it throws
\* 'Invalid import file format'
importTasksFromFile(file) ==
  IF \A i \in 1..Len(file.tasks) : WellFormed(file.tasks[i])
  THEN [ok |-> TRUE,
        tasks |-> SelectSeq([i \in 1..Len(file.tasks) |-> parseTask(file.tasks[i])],
                            isValidTask)]
  ELSE [ok |-> FALSE, tasks |-> <<>>]

\* the tasks of the lists a user exports: titles with the characters JSON
\* escapes and with the spelling of JSON's own literals
ExportTitles == <<"Write tests", "null", "Read \"Dune\"", "C:\\tmp\\">>

ExportedTask(i, k) ==
  Task(ToString(i), ExportTitles[k], IF k = 2 THEN "true" ELSE "",
       k \in {2, 3},
       IF k = 1 THEN "low" ELSE "high",
       IF k = 1 THEN Null ELSE IF k = 2 THEN Today ELSE InvalidDate,
       0, IF k = 4 THEN MaxClock ELSE 0)

ExportedLists ==
  UNION { { [i \in 1..n |-> ExportedTask(i, c[i])] :
              c \in [1..n -> 1..Len(ExportTitles)] } : n \in 0..(MaxLen - 1) }

\* DataManager.handleImport with a file that handleExport wrote for one of
\* the lists: the file is read and parsed, and when it holds tasks and the
\* user confirms, the tasks go to the store
handleImport ==
  \E ts \in ExportedLists, t \in Times :
    LET importedTasks == importTasksFromFile(exportTasks(ts, t))
    IN  /\ importedTasks.ok
        /\ Len(importedTasks.tasks) > 0
        /\ dispatchImportTasks(importedTasks.tasks)
        /\ event' = [name |-> "handleImport"]
        /\ UNCHANGED <<filtersView, formView, listView>>

RoundTripInit ==
  \E ts \in ExportedLists :
    InitialState([data |-> <<StorageData(ts, 0)>>, version |-> STORAGE_VERSION])

RoundTripNext ==
  \/ handleImport
  \/ clearAllTasks /\ UNCHANGED view

RoundTripSpec == RoundTripInit /\ [][RoundTripNext]_vars

\* ---------------------------------------------- components/TaskFilters.tsx
\* React runs the effects of a render before it handles the next event or
\* timer, so the handlers wait while effects are pending
EffectsPending ==
  effectDeps # [searchQuery |-> searchQuery, debouncedSearchQuery |-> debouncedValue]

\* the search input's onChange with the text the input now holds
handleSearchChange ==
  \E text \in SearchQueries :
    /\ ~EffectsPending
    /\ text # searchQuery
    /\ dispatchSetSearchQuery(text)
    /\ event' = [name |-> "handleSearchChange"]
    /\ UNCHANGED <<filtersView, formView, listView>>

\* the filter buttons
handleFilterChange ==
  /\ ~EffectsPending
  /\ setFilter
  /\ event' = [name |-> "handleFilterChange"]
  /\ UNCHANGED <<filtersView, formView, listView>>

\* "Clear completed", shown while there are completed tasks, once confirmed
handleClearCompleted ==
  /\ ~EffectsPending
  /\ \E i \in 1..Len(tasks) : tasks[i].completed
  /\ clearCompleted
  /\ event' = [name |-> "handleClearCompleted"]
  /\ UNCHANGED <<filtersView, formView, listView>>

\* "Clear all", shown while there are tasks, once confirmed
handleClearAll ==
  /\ ~EffectsPending
  /\ Len(tasks) > 0
  /\ clearAllTasks
  /\ event' = [name |-> "handleClearAll"]
  /\ UNCHANGED <<filtersView, formView, listView>>

\* the effects of one render, in the order of the hooks: useDebounce restarts
\* its timer when searchQuery changed; the component's effect then dispatches
\* the debounced value when it differs from searchQuery
runEffects ==
  /\ EffectsPending
  /\ debounceTimer' =
       IF effectDeps.searchQuery # searchQuery THEN <<searchQuery>> ELSE debounceTimer
  /\ effectDeps' =
       [searchQuery |-> searchQuery, debouncedSearchQuery |-> debouncedValue]
  /\ debouncedValue' = debouncedValue
  /\ event' = [name |-> "useEffect"]
  /\ UNCHANGED <<formView, listView>>
  /\ IF debouncedValue # searchQuery
       THEN dispatchSetSearchQuery(debouncedValue)
       ELSE UNCHANGED store

\* the 300 ms of useDebounce are over: setDebouncedValue(value)
debounceTimerFires ==
  /\ ~EffectsPending
  /\ debounceTimer # <<>>
  /\ debouncedValue' = debounceTimer[1]
  /\ debounceTimer' = <<>>
  /\ event' = [name |-> "setTimeout"]
  /\ UNCHANGED <<store, effectDeps, formView, listView>>

FiltersNext ==
  \/ handleSearchChange
  \/ handleFilterChange
  \/ handleClearCompleted
  \/ handleClearAll
  \/ runEffects
  \/ debounceTimerFires

FiltersSpec == Init /\ [][FiltersNext]_vars

\* -------------------- components/TaskStats.tsx and components/TaskItem.tsx
\* An instant is a number of hours since day 0 began in UTC; the due date d
\* of a task is the string 'YYYY-MM-DD' of day d.
HoursPerDay == 24

\* the time zones of the model, in hours ahead of UTC
TimeZoneOffsets == {-5, 0, 5}

\* the instants at which a component can render: the days around Today
Instants == ((Today - 1) * HoursPerDay)..((Today + 2) * HoursPerDay)

\* task.dueDate is truthy and new Date(task.dueDate) is a valid date
IsDate(d) == d \notin {Null, InvalidDate}

\* new Date('YYYY-MM-DD'): a date-only string is read as the start of that
\* day in UTC
ParseDate(d) == d * HoursPerDay

\* Date.prototype.toDateString: the calendar day in the local time zone
toDateString(instant, offset) == (instant + offset) \div HoursPerDay

\* the overdue and dueToday numbers of calculateTaskStats(tasks), run at the
\* instant n in the time zone tz
calculateTaskStats(ts, n, tz) ==
  LET Active == {i \in 1..Len(ts) : ~ts[i].completed /\ IsDate(ts[i].dueDate)}
      Overdue == {i \in Active : ParseDate(ts[i].dueDate) < n}
  IN  [overdue |-> Cardinality(Overdue),
       dueToday |->
         Cardinality({i \in Active \ Overdue :
                        toDateString(ParseDate(ts[i].dueDate), tz)
                          = toDateString(n, tz)})]

\* TaskItem: the text beside the due date of a task that has one
isOverdue(task, n) ==
  IsDate(task.dueDate) /\ ParseDate(task.dueDate) < n /\ ~task.completed

isDueToday(task, n, tz) ==
  /\ IsDate(task.dueDate)
  /\ toDateString(ParseDate(task.dueDate), tz) = toDateString(n, tz)

dueLabel(task, n, tz) ==
  IF isOverdue(task, n) THEN "Overdue"
  ELSE IF isDueToday(task, n, tz) THEN "Due today"
  ELSE "Due"

\* the lists shown: up to MaxLen - 1 tasks, each completed or not and with
\* any of the due dates
ShownLists ==
  UNION { { [i \in 1..n |-> [StoredTask(i, "low", c[i][1]) EXCEPT !.completed = c[i][2]]] :
              c \in [1..n -> DueDates \X BOOLEAN] } : n \in 0..(MaxLen - 1) }

StatsInit ==
  \E ts \in ShownLists :
    InitialState([data |-> <<StorageData(ts, 0)>>, version |-> STORAGE_VERSION])

\* TaskItem.handleToggle
handleToggle ==
  /\ toggleTask
  /\ action'.id \in IdsOf(tasks)
  /\ event' = [name |-> "handleToggle"]
  /\ UNCHANGED <<filtersView, formView, listView>>

StatsNext == handleToggle

StatsSpec == StatsInit /\ [][StatsNext]_vars

\* ----------------------------------- components/TaskForm.tsx and App.tsx
NoMessage == ""

\* String.prototype.repeat (the count is halved to keep the recursion flat)
RECURSIVE Repeat(_, _)
Repeat(c, n) ==
  IF n = 0 THEN ""
  ELSE IF n = 1 THEN c
  ELSE Repeat(c, n \div 2) \o Repeat(c, n - n \div 2)

\* String.prototype.trim; the blank is the white space of the model
trim(s) ==
  LET Inked == {i \in 1..Len(s) : CharAt(s, i) # " "}
  IN  IF Inked = {}
      THEN ""
      ELSE SubSeq(s, CHOOSE i \in Inked : \A j \in Inked : i <= j,
                     CHOOSE i \in Inked : \A j \in Inked : j <= i)

\* validateTitle of utils/validation, the same tests as TaskForm.validateForm
validateTitle(title) ==
  IF trim(title) = "" THEN "Title is required"
  ELSE IF Len(trim(title)) < 3 THEN "Title must be at least 3 characters long"
  ELSE IF Len(trim(title)) > 100 THEN "Title must be less than 100 characters"
  ELSE NoMessage

validateDescription(description) ==
  IF Len(description) > 500
  THEN "Description must be less than 500 characters"
  ELSE NoMessage

\* today.setHours(0, 0, 0, 0): the start of the local day of instant n
StartOfDay(n, tz) == toDateString(n, tz) * HoursPerDay - tz

\* the due date test of TaskForm.validateForm at instant n in time zone tz
validateDueDate(dueDate, n, tz) ==
  IF IsDate(dueDate) /\ ParseDate(dueDate) < StartOfDay(n, tz)
  THEN "Due date cannot be in the past"
  ELSE NoMessage

\* TaskForm.validateForm: the errors object
validateForm(data, n, tz) ==
  LET messages ==
        [title |-> validateTitle(data.title),
         description |-> validateDescription(data.description),
         dueDate |-> validateDueDate(data.dueDate, n, tz)]
  IN  [f \in {g \in DOMAIN messages : messages[g] # NoMessage} |-> messages[f]]

\* what the user can put into the inputs: titles of trimmed length 0, 0, 2,
\* 3, 100 and 101, a description of 501 characters, yesterday and today
FormInputs(field) ==
  IF field = "title"
  THEN {"", "   ", "ab", "  abc ", Repeat("a", 100), Repeat("a", 101)}
  ELSE IF field = "description" THEN {"", Repeat("d", 501)}
  ELSE {Today - 1, Today}

\* the instants at which the form is submitted: the middle of Today in UTC
FormInstants == {Today * HoursPerDay + HoursPerDay \div 2}

\* App.handleAddTask: the "Add task" button and Ctrl+N; a form that opens
\* starts with empty inputs
handleAddTask ==
  /\ steps < MaxFormSteps
  /\ showForm' = TRUE
  /\ editingTask' = <<>>
  /\ event' = [name |-> "handleAddTask"]
  /\ UNCHANGED <<store, filtersView, listView, formData, validationErrors>>

\* App.handleEditTask(task) from a task item, and the form's effect that
\* copies the task into the inputs
handleEditTask ==
  \E i \in 1..Len(tasks) :
    /\ steps < MaxFormSteps
    /\ showForm' = TRUE
    /\ editingTask' = <<tasks[i]>>
    /\ formData' =
         IF editingTask = <<tasks[i]>>
         THEN formData
         ELSE [title |-> tasks[i].title, description |-> tasks[i].description,
               priority |-> tasks[i].priority, dueDate |-> tasks[i].dueDate]
    /\ event' = [name |-> "handleEditTask"]
    /\ UNCHANGED <<store, filtersView, listView, validationErrors>>

\* TaskForm.handleInputChange(field, value)
handleInputChange ==
  \E field \in {"title", "description", "dueDate"} :
    \E value \in FormInputs(field) :
      /\ steps < MaxFormSteps
      /\ showForm
      /\ ~isLoading
      /\ value # formData[field]
      /\ formData' = [formData EXCEPT ![field] = value]
      /\ validationErrors' =
           [f \in DOMAIN validationErrors \ {field} |-> validationErrors[f]]
      /\ event' = [name |-> "handleInputChange"]
      /\ UNCHANGED <<store, filtersView, listView, showForm, editingTask>>

\* the form after setFormData(initial values), setValidationErrors({}) and
\* onCancel(), which is App.handleCloseForm
FormClosed ==
  /\ formData' = EmptyForm
  /\ validationErrors' = NoErrors
  /\ showForm' = FALSE
  /\ editingTask' = <<>>

\* a submit that goes on after validateForm() has found errors
handleSubmitWithoutReturn ==
  \E n \in FormInstants, tz \in TimeZoneOffsets :
    LET taskData ==
          [title |-> trim(formData.title),
           description |-> trim(formData.description),
           priority |-> formData.priority,
           dueDate |-> formData.dueDate]
    IN  /\ showForm
        /\ ~isLoading
        /\ event' = [name |-> "handleSubmit", instant |-> n, offset |-> tz]
        /\ IF editingTask # <<>>
             THEN dispatchUpdateTask(editingTask[1].id, taskData)
             ELSE dispatchAddTask(Spread(taskData, [completed |-> FALSE]))
        /\ FormClosed
        /\ UNCHANGED <<filtersView, listView>>

\* TaskForm.handleSubmit at instant n in time zone tz
handleSubmit ==
  \E n \in FormInstants, tz \in TimeZoneOffsets :
    LET errors == validateForm(formData, n, tz)
        taskData ==
          [title |-> trim(formData.title),
           description |-> trim(formData.description),
           priority |-> formData.priority,
           dueDate |-> formData.dueDate]
    IN  /\ showForm
        /\ ~isLoading
        /\ event' = [name |-> "handleSubmit", instant |-> n, offset |-> tz]
        /\ IF DOMAIN errors # {}
             THEN /\ validationErrors' = errors
                  /\ UNCHANGED <<store, filtersView, listView, showForm, editingTask,
                                 formData>>
             ELSE /\ IF editingTask # <<>>
                       THEN dispatchUpdateTask(editingTask[1].id, taskData)
                       ELSE dispatchAddTask(Spread(taskData, [completed |-> FALSE]))
                  /\ FormClosed
                  /\ UNCHANGED <<filtersView, listView>>

\* TaskForm.handleCancel
handleCancel ==
  /\ showForm
  /\ ~isLoading
  /\ clearError
  /\ FormClosed
  /\ event' = [name |-> "handleCancel"]
  /\ UNCHANGED <<filtersView, listView>>

\* App.handleCloseForm by the Escape key; the unmounted form loses its state
handleCloseForm ==
  /\ showForm
  /\ FormClosed
  /\ event' = [name |-> "handleCloseForm"]
  /\ UNCHANGED <<store, filtersView, listView>>

FormNext ==
  \/ handleAddTask
  \/ handleEditTask
  \/ handleInputChange
  \/ handleSubmit
  \/ handleCancel
  \/ handleCloseForm

\* a session that starts with the list an earlier session has saved
FormInit ==
  InitialState([data |-> <<StorageData(SavedTasks, 0)>>,
                version |-> STORAGE_VERSION])

FormSpec == FormInit /\ [][FormNext]_vars

\* the timer of TaskForm's effect on [error]: it runs while the form is
\* mounted and error is set, and dispatches clearError() after 5 seconds; a
\* timer is not held back by the bound on the user's dispatches
errorTimeout ==
  /\ showForm
  /\ error # NoError
  /\ steps' = IF steps < MaxSteps THEN steps + 1 ELSE steps
  /\ action' = [type |-> "clearError", id |-> "", payload |-> ""]
  /\ error' = NoError
  /\ saveResult' = "none"
  /\ event' = [name |-> "setTimeout"]
  /\ UNCHANGED <<tasks, filter, searchQuery, isLoading, lastSaved, autoSave,
                 storage, now, filtersView, formView, listView>>

\* the form next to a task list whose items are toggled, with the timer
ErrorNext ==
  \/ FormNext
  \/ handleToggle
  \/ errorTimeout

\* a timer that is running fires: its callback is run once the 5 seconds
\* have passed unless the effect's cleanup has cleared it
ErrorSpec == FormInit /\ [][ErrorNext]_vars /\ WF_vars(errorTimeout)

\* ------------------------------------------- the application starts again
\* the page is loaded again at clock reading now: taskSlice builds
\* initialState from what localStorage holds and the components mount
startApplication ==
  LET r == loadInitialTasks(storage, now)
  IN  /\ Dispatch("@@INIT", "", "")
      /\ tasks' = r.tasks
      /\ storage' = r.storage
      /\ filter' = "all"
      /\ searchQuery' = ""
      /\ isLoading' = FALSE
      /\ error' = NoError
      /\ lastSaved' = Null
      /\ autoSave' = TRUE
      /\ now' = now
      /\ saveResult' = "none"
      /\ event' = [name |-> "mount"]
      /\ deleteTimers' = {}
      /\ selectedTasks' = <<>>
      /\ debouncedValue' = ""
      /\ debounceTimer' = <<"">>
      /\ effectDeps' = [searchQuery |-> "", debouncedSearchQuery |-> ""]
      /\ showForm' = FALSE
      /\ editingTask' = <<>>
      /\ formData' = EmptyForm
      /\ validationErrors' = NoErrors

\* sessions in which tasks are added, toggled and removed, and the page is
\* loaded again
RestartNext ==
  \/ startApplication
  \/ addTask /\ UNCHANGED view
  \/ toggleTask /\ UNCHANGED view
  \/ deleteTask /\ UNCHANGED view
  \/ clearCompleted /\ UNCHANGED view
  \/ clearAllTasks /\ UNCHANGED view

RestartSpec == Init /\ [][RestartNext]_vars

\* ------------------------------- components/TaskItem.tsx: delayed delete
\* the items on screen
Displayed == filteredTasks(tasks, filter, searchQuery)

\* TaskItem.handleDelete, confirmed: isDeleting disables the button and a
\* timer of 300 ms is started, which nothing ever clears
handleDelete ==
  \E id \in IdsOf(Displayed) \ deleteTimers :
    /\ steps < MaxSteps
    /\ deleteTimers' = deleteTimers \cup {id}
    /\ event' = [name |-> "handleDelete", id |-> id]
    /\ UNCHANGED <<store, filtersView, formView, selectedTasks>>

\* the callback of that timer: dispatch(deleteTask(task.id))
deleteTimerFires ==
  \E id \in deleteTimers :
    /\ dispatchDeleteTask(id)
    /\ deleteTimers' = deleteTimers \ {id}
    /\ event' = [name |-> "setTimeout", id |-> id]
    /\ UNCHANGED <<filtersView, formView, selectedTasks>>

\* task items next to the buttons of TaskFilters
ItemNext ==
  \/ handleDelete
  \/ deleteTimerFires
  \/ handleToggle
  \/ handleClearCompleted
  \/ handleClearAll

ItemSpec == Init /\ [][ItemNext]_vars

\* ------------------------------------ components/TaskList.tsx: selection
\* new Set(ids): the ids in order, each once
RECURSIVE Distinct(_)
Distinct(ids) ==
  IF ids = <<>> THEN <<>>
  ELSE LET front == Distinct(SubSeq(ids, 1, Len(ids) - 1))
       IN  IF ids[Len(ids)] \in Range(front)
           THEN front
           ELSE Append(front, ids[Len(ids)])

\* TaskList.handleSelectTask(taskId, selected) from the checkbox of an item
\* on screen
handleSelectTask ==
  \E id \in IdsOf(Displayed) :
    /\ steps < MaxSteps
    /\ selectedTasks' =
         IF id \in Range(selectedTasks)
         THEN SelectSeq(selectedTasks, LAMBDA other : other # id)
         ELSE Append(selectedTasks, id)
    /\ event' = [name |-> "handleSelectTask", id |-> id]
    /\ UNCHANGED <<store, filtersView, formView, deleteTimers>>

\* TaskList.handleSelectAll; the checkbox exists while tasks are displayed
handleSelectAll ==
  /\ steps < MaxSteps
  /\ Displayed # <<>>
  /\ selectedTasks' =
       IF Len(selectedTasks) = Len(Displayed)
       THEN <<>>
       ELSE Distinct([i \in 1..Len(Displayed) |-> Displayed[i].id])
  /\ event' = [name |-> "handleSelectAll"]
  /\ UNCHANGED <<store, filtersView, formView, deleteTimers>>

\* the bulk buttons exist while tasks are displayed and some are selected
BulkActionsShown == Displayed # <<>> /\ selectedTasks # <<>>

\* TaskList.handleBulkDelete, confirmed
handleBulkDelete ==
  /\ BulkActionsShown
  /\ dispatchDeleteMultipleTasks(selectedTasks)
  /\ selectedTasks' = <<>>
  /\ event' = [name |-> "handleBulkDelete"]
  /\ UNCHANGED <<filtersView, formView, deleteTimers>>

\* TaskList.handleBulkToggle(completed)
handleBulkToggle ==
  \E completed \in BOOLEAN :
    /\ BulkActionsShown
    /\ dispatchToggleMultipleTasks(selectedTasks, completed)
    /\ selectedTasks' = <<>>
    /\ event' = [name |-> "handleBulkToggle"]
    /\ UNCHANGED <<filtersView, formView, deleteTimers>>

\* the task list under the filter buttons
ListNext ==
  \/ handleSelectTask
  \/ handleSelectAll
  \/ handleBulkDelete
  \/ handleBulkToggle
  \/ handleFilterChange
  \/ handleToggle

ListSpec == Init /\ [][ListNext]_vars

\* ================================================================ claims
\* the step just taken is a dispatch of one of the given action types
Dispatched(types) == steps' = steps + 1 /\ action'.type \in types

LookupReducers ==
  {"updateTask", "toggleTask", "updateTaskPriority", "deleteTask",
   "duplicateTask"}

\* C1: no two tasks of the in-memory list have the same id, in every
\* reachable state.
C1_UniqueIds ==
  \A i, j \in 1..Len(tasks) : i # j => tasks[i].id # tasks[j].id

\* C2: update, toggle, setPriority, delete and duplicate dispatched with an id
\* that matches no task set error to the not-found message and change nothing
\* else: the task list, filter, searchQuery, autoSave, lastSaved and the
\* storage stay as they are and saveTasks is not called.
C2_NotFoundLeavesState ==
  [][ (Dispatched(LookupReducers) /\ ~Has(tasks, action'.id))
        => /\ error' = NotFoundMsg
           /\ saveResult' = "none"
           /\ tasks' = tasks
           /\ filter' = filter
           /\ searchQuery' = searchQuery
           /\ isLoading' = isLoading
           /\ autoSave' = autoSave
           /\ lastSaved' = lastSaved
           /\ storage' = storage ]_vars

\* a second delete of task "1": the first dispatch removed it and saved, the
\* second one finds nothing
C2_Witness ==
  /\ steps = 2
  /\ action.type = "deleteTask"
  /\ action.id = "1"
  /\ ~Has(tasks, "1")
  /\ error = NotFoundMsg
  /\ lastSaved # Null

MutatingReducers ==
  {"addTask", "addMultipleTasks", "updateTask", "toggleTask",
   "toggleMultipleTasks", "updateTaskPriority", "deleteTask",
   "deleteMultipleTasks", "clearCompleted", "clearAllTasks", "duplicateTask",
   "sortTasks", "importTasks"}

\* the step just taken is a mutating reducer that found what it looked for
Succeeded ==
  /\ Dispatched(MutatingReducers)
  /\ action'.type \in LookupReducers => Has(tasks, action'.id)

\* the fields of a task other than the given ones agree
SameExcept(a, b, fields) ==
  \A f \in TaskFields \ fields : a[f] = b[f]

\* what the reducer of action a has to have done to the list `before` for its
\* change to be in the list `after`
Applied(a, before, after) ==
  LET i == findIndex(before, a.id)
      n == Len(before)
      grownBy(k) ==
        /\ Len(after) = n + k
        /\ SubSeq(after, k + 1, n + k) = before
  IN  CASE a.type = "addTask" ->
             /\ grownBy(1)
             /\ \A f \in DOMAIN a.payload : after[1][f] = a.payload[f]
        [] a.type = "addMultipleTasks" ->
             /\ grownBy(Len(a.payload))
             /\ \A k \in 1..Len(a.payload) :
                  \A f \in DOMAIN a.payload[k] : after[k][f] = a.payload[k][f]
        [] a.type = "duplicateTask" ->
             /\ grownBy(1)
             /\ after[1].title = CopyTitle(before[i].title)
        [] a.type = "updateTask" ->
             /\ Len(after) = n
             /\ \A f \in DOMAIN a.payload \ {"updatedAt"} :
                  after[i][f] = a.payload[f]
        [] a.type = "toggleTask" ->
             /\ Len(after) = n
             /\ after[i].completed = ~before[i].completed
        [] a.type = "updateTaskPriority" ->
             /\ Len(after) = n
             /\ after[i].priority = a.payload
        [] a.type = "toggleMultipleTasks" ->
             /\ Len(after) = n
             /\ \A k \in 1..Len(a.payload.ids) :
                  LET j == findIndex(before, a.payload.ids[k])
                  IN  j # 0 => after[j].completed = a.payload.completed
        [] a.type = "deleteTask" ->
             after = SelectSeq(before, LAMBDA task : task.id # a.id)
        [] a.type = "deleteMultipleTasks" ->
             after = SelectSeq(before,
                               LAMBDA task : task.id \notin Range(a.payload))
        [] a.type = "clearCompleted" ->
             after = SelectSeq(before, LAMBDA task : ~task.completed)
        [] a.type = "clearAllTasks" -> after = <<>>
        [] a.type = "sortTasks" -> after \in SortOutcomes(a.payload, before)
        [] a.type = "importTasks" -> after = a.payload

\* C3: after every successful mutating reducer saveTasks is called if and
\* only if autoSave is true; when the write succeeds the stored list is the
\* in-memory list as the reducer left it, and with autoSave false the storage
\* and lastSaved are untouched.
C3_WriteIffAutoSave ==
  [][ Succeeded
        => /\ autoSave <=> saveResult' # "none"
           /\ saveResult' = "ok"
                => /\ storage'.version = STORAGE_VERSION
                   /\ storage'.data # <<>>
                   /\ storage'.data[1].tasks = tasks'
           /\ ~autoSave => storage' = storage /\ lastSaved' = lastSaved ]_vars

\* a toggle of one of the three default tasks, written through to a storage
\* that an earlier failed write had left behind the memory
C3_Witness ==
  /\ steps = 2
  /\ action.type = "toggleTask"
  /\ Has(tasks, action.id)
  /\ autoSave
  /\ saveResult = "ok"
  /\ error = SaveFailedMsg
  /\ Len(tasks) = 3
  /\ storage.data # <<>>
  /\ storage.data[1].tasks = tasks

\* C4: when the write of a mutating reducer fails, error is the
\* persistence-failure message, lastSaved keeps its value and the reducer's
\* change stays in the in-memory list.
C4_FailedWriteKeepsMutation ==
  [][ (Succeeded /\ saveResult' = "failed")
        => /\ error' = SaveFailedMsg
           /\ lastSaved' = lastSaved
           /\ Applied(action', tasks, tasks') ]_vars

\* clearAllTasks whose write failed: the memory is empty, the storage still
\* holds the list of the earlier session
C4_Witness ==
  /\ action.type = "clearAllTasks"
  /\ saveResult = "failed"
  /\ tasks = <<>>
  /\ error = SaveFailedMsg
  /\ lastSaved = Null
  /\ storage.data # <<>>
  /\ storage.data[1].tasks # <<>>

\* C5: when the write of a mutating reducer succeeds, lastSaved is the
\* clock reading of the write and a persistence-failure message an earlier
\* failed write left in error is cleared.
C5_SuccessfulWriteClearsError ==
  [][ (Succeeded /\ saveResult' = "ok")
        => /\ lastSaved' = now'
           /\ error = SaveFailedMsg => error' = NoError ]_vars

\* C6: lastSaved changes only in a step whose persistence write succeeded.
C6_LastSavedOnlyOnWrite ==
  [][ lastSaved' # lastSaved => saveResult' = "ok" ]_vars

\* C7: toggleAutoSave flips autoSave and leaves the task list alone; turned
\* on, it calls saveTasks with the current list at once (a successful write
\* leaves that list in the storage and stamps lastSaved); turned off, it
\* writes nothing.
C7_ToggleAutoSave ==
  [][ Dispatched({"toggleAutoSave"})
        => /\ autoSave' = ~autoSave
           /\ tasks' = tasks
           /\ autoSave'
                => /\ saveResult' \in {"ok", "failed"}
                   /\ saveResult' = "ok"
                        => /\ storage'.data # <<>>
                           /\ storage'.data[1].tasks = tasks
                           /\ storage'.version = STORAGE_VERSION
                           /\ lastSaved' = now'
           /\ ~autoSave'
                => /\ saveResult' = "none"
                   /\ storage' = storage
                   /\ lastSaved' = lastSaved ]_vars

\* autoSave switched off and on again over the three default tasks, which no
\* write had stored before: the second toggle stored them
C7_Witness ==
  /\ steps = 2
  /\ action.type = "toggleAutoSave"
  /\ autoSave
  /\ saveResult = "ok"
  /\ Len(tasks) = 3
  /\ storage.data # <<>>
  /\ storage.data[1].tasks = tasks

\* how often the pair of id and createdAt of task x occurs in the list
Occurrences(ts, x) ==
  Cardinality({i \in 1..Len(ts) :
                 ts[i].id = x.id /\ ts[i].createdAt = x.createdAt})

\* C8: update (with any partial field set), toggle, toggleMultiple and
\* setPriority leave the id and the createdAt of every task as they were, and
\* sort only reorders them.
C8_IdAndCreatedAtImmutable ==
  [][ /\ Dispatched({"updateTask", "toggleTask", "toggleMultipleTasks",
                     "updateTaskPriority"})
           => /\ Len(tasks') = Len(tasks)
              /\ \A i \in 1..Len(tasks) :
                   /\ tasks'[i].id = tasks[i].id
                   /\ tasks'[i].createdAt = tasks[i].createdAt
      /\ Dispatched({"sortTasks"})
           => /\ Len(tasks') = Len(tasks)
              /\ \A i \in 1..Len(tasks) :
                   Occurrences(tasks', tasks[i]) = Occurrences(tasks, tasks[i])
    ]_vars

\* C9: every task of the in-memory list has updatedAt >= createdAt, in every
\* reachable state.
C9_UpdatedNotBeforeCreated ==
  \A i \in 1..Len(tasks) : tasks[i].updatedAt >= tasks[i].createdAt

\* the fields of the target task a reducer names
NamedFields(a) ==
  CASE a.type = "updateTask" -> DOMAIN a.payload \cup {"updatedAt"}
    [] a.type = "toggleTask" -> {"completed", "updatedAt"}
    [] a.type = "updateTaskPriority" -> {"priority", "updatedAt"}

\* C10: update, toggle and setPriority on an id that exists stamp the target
\* task's updatedAt with the clock reading of the dispatch, which is never
\* earlier than its previous updatedAt; the fields of the target the reducer
\* does not name, every other task and the order of the list stay as they
\* were.
C10_UpdatedAtAdvancesFramePreserved ==
  [][ ( /\ Dispatched({"updateTask", "toggleTask", "updateTaskPriority"})
        /\ Has(tasks, action'.id) )
        => LET i == findIndex(tasks, action'.id)
           IN  /\ Len(tasks') = Len(tasks)
               /\ tasks'[i].updatedAt = now'
               /\ tasks'[i].updatedAt >= tasks[i].updatedAt
               /\ SameExcept(tasks'[i], tasks[i], NamedFields(action'))
               /\ \A j \in 1..Len(tasks) : j # i => tasks'[j] = tasks[j] ]_vars

CreatingReducers == {"addTask", "addMultipleTasks", "duplicateTask"}

\* C11: every task that addTask, addMultipleTasks or duplicateTask puts into
\* the list has updatedAt equal to createdAt when the reducer returns,
\* whatever the clock does between the reducer's readings of it.
C11_CreatedWithEqualStamps ==
  [][ Dispatched(CreatingReducers)
        => \A k \in 1..(Len(tasks') - Len(tasks)) :
             tasks'[k].updatedAt = tasks'[k].createdAt ]_vars

\* the fields of a payload are the fields of the task made from it
FromPayload(task, data) == \A f \in DOMAIN data : task[f] = data[f]

\* C12: addTask puts the new task at index 0; addMultipleTasks puts its new
\* tasks at the front as one block in the order of the payload; the tasks
\* that were in the list follow, unchanged and in their previous order.
C12_NewTasksAtFront ==
  [][ /\ Dispatched({"addTask"})
           => /\ Len(tasks') = Len(tasks) + 1
              /\ FromPayload(tasks'[1], action'.payload)
              /\ SubSeq(tasks', 2, Len(tasks')) = tasks
      /\ Dispatched({"addMultipleTasks"})
           => LET n == Len(action'.payload)
              IN  /\ Len(tasks') = Len(tasks) + n
                  /\ \A k \in 1..n : FromPayload(tasks'[k], action'.payload[k])
                  /\ SubSeq(tasks', n + 1, Len(tasks')) = tasks ]_vars

\* two tasks added at once in front of the three default tasks
C12_Witness ==
  /\ action.type = "addMultipleTasks"
  /\ Len(action.payload) = 2
  /\ Len(tasks) = 5
  /\ tasks[1].title = action.payload[1].title
  /\ tasks[2].title = action.payload[2].title
  /\ tasks[1].title # tasks[2].title
  /\ tasks[3].id = "1"
  /\ tasks[5].id = "3"

\* C13: duplicateTask on an id that exists puts exactly one new task at the
\* front: its id is the id of no task that was in the list, its title is the
\* source's title followed by " (Copy)", completed is false, description,
\* priority and dueDate are the source's; the source and every other task
\* stay as they were.
C13_DuplicateAtFront ==
  [][ (Dispatched({"duplicateTask"}) /\ Has(tasks, action'.id))
        => LET source == tasks[findIndex(tasks, action'.id)]
               copy == tasks'[1]
           IN  /\ Len(tasks') = Len(tasks) + 1
               /\ SubSeq(tasks', 2, Len(tasks')) = tasks
               /\ copy.id \notin IdsOf(tasks)
               /\ copy.title = CopyTitle(source.title)
               /\ copy.completed = FALSE
               /\ copy.description = source.description
               /\ copy.priority = source.priority
               /\ copy.dueDate = source.dueDate ]_vars

\* C14: toggleMultipleTasks(ids, completed) leaves every task whose id is in
\* ids with that value of completed and every other task as it was, keeps
\* the length and the order of the list, and sets no error of its own,
\* whether the ids match tasks or not (error changes only by a failed write).
C14_ToggleMultiple ==
  [][ Dispatched({"toggleMultipleTasks"})
        => LET ids == Range(action'.payload.ids)
           IN  /\ Len(tasks') = Len(tasks)
               /\ \A i \in 1..Len(tasks) :
                    /\ tasks'[i].id = tasks[i].id
                    /\ tasks[i].id \in ids
                         => tasks'[i].completed = action'.payload.completed
                    /\ tasks[i].id \notin ids => tasks'[i] = tasks[i]
               /\ saveResult' # "failed" => error' = error
               /\ error' \in {error, SaveFailedMsg} ]_vars

\* the positions of the tasks of ts that are not completed, in list order
ActivePositions(ts) ==
  SelectSeq([i \in 1..Len(ts) |-> i], LAMBDA i : ~ts[i].completed)

\* C15: clearCompleted leaves exactly the tasks that were not completed,
\* each unchanged and in their previous relative order: no completed task
\* remains and no other task is removed.
C15_ClearCompleted ==
  [][ Dispatched({"clearCompleted"})
        => LET kept == ActivePositions(tasks)
           IN  /\ Len(tasks') = Len(kept)
               /\ \A k \in 1..Len(kept) : tasks'[k] = tasks[kept[k]]
               /\ \A k \in 1..Len(tasks') : ~tasks'[k].completed ]_vars

\* the default list, one of three tasks completed: the other two are left
C15_Witness ==
  /\ steps = 1
  /\ action.type = "clearCompleted"
  /\ Len(tasks) = 2
  /\ tasks[1].id = "2"
  /\ tasks[2].id = "3"
  /\ ~tasks[1].completed
  /\ ~tasks[2].completed

\* priority p is strictly lower than priority q
LowerPriority(p, q) ==
  <<p, q>> \in {<<"low", "medium">>, <<"low", "high">>, <<"medium", "high">>}

\* C16: after sortTasks("priority") the list is in the order high, medium,
\* low: no task stands behind a task of strictly lower priority; the list
\* holds the same tasks as before.
C16_SortByPriority ==
  [][ (Dispatched({"sortTasks"}) /\ action'.payload = "priority")
        => /\ \A i, j \in 1..Len(tasks') :
                i < j => ~LowerPriority(tasks'[i].priority, tasks'[j].priority)
           /\ Len(tasks') = Len(tasks)
           /\ Range(tasks') = Range(tasks) ]_vars

\* the spec's example: low, high, medium becomes high, medium, low
C16_Witness ==
  /\ steps = 1
  /\ action.type = "sortTasks"
  /\ action.payload = "priority"
  /\ Len(tasks) = 3
  /\ tasks[1].priority = "high" /\ tasks[1].id = "2"
  /\ tasks[2].priority = "medium" /\ tasks[2].id = "3"
  /\ tasks[3].priority = "low" /\ tasks[3].id = "1"

\* the task has a due date: the field holds a string that is not empty
HasDueDate(task) == task.dueDate # Null

\* the due date of the task is a date
HasDate(task) == task.dueDate \notin {Null, InvalidDate}

\* C17: after sortTasks("dueDate") every task that has a due date stands
\* before every task that has none, and the tasks whose due date is a date
\* are in ascending order of date; the list holds the same tasks as before.
C17_SortByDueDate ==
  [][ (Dispatched({"sortTasks"}) /\ action'.payload = "dueDate")
        => /\ \A i, j \in 1..Len(tasks') :
                i < j => /\ HasDueDate(tasks'[j]) => HasDueDate(tasks'[i])
                         /\ (HasDate(tasks'[i]) /\ HasDate(tasks'[j]))
                              => tasks'[i].dueDate <= tasks'[j].dueDate
           /\ Len(tasks') = Len(tasks)
           /\ Range(tasks') = Range(tasks) ]_vars

\* C18: setFilter changes only filter and setSearchQuery only searchQuery:
\* the task list, error, autoSave, lastSaved, isLoading and the storage stay
\* as they are and saveTasks is not called, with autoSave on or off.
C18_ViewStateOnly ==
  [][ /\ Dispatched({"setFilter"})
           => /\ filter' = action'.payload
              /\ searchQuery' = searchQuery
      /\ Dispatched({"setSearchQuery"})
           => /\ searchQuery' = action'.payload
              /\ filter' = filter
      /\ Dispatched({"setFilter", "setSearchQuery"})
           => /\ tasks' = tasks
              /\ error' = error
              /\ autoSave' = autoSave
              /\ lastSaved' = lastSaved
              /\ isLoading' = isLoading
              /\ storage' = storage
              /\ saveResult' = "none" ]_vars

\* the filter set to "completed" with autoSave on, after an earlier write
\* failed: the error and the stale storage are left alone
C18_Witness ==
  /\ steps = 2
  /\ action.type = "setFilter"
  /\ filter = "completed"
  /\ autoSave
  /\ error = SaveFailedMsg
  /\ lastSaved = Null
  /\ saveResult = "none"

\* two characters are the same letter in either case, or the same character
SameLetter(c, d) ==
  \/ c = d
  \/ \E i \in 1..Len(UpperCaseLetters) :
       {c, d} = {CharAt(UpperCaseLetters, i), CharAt(LowerCaseLetters, i)}

\* q occurs in s as a substring, the case of letters ignored
OccursIgnoringCase(s, q) ==
  \E i \in 0..(Len(s) - Len(q)) :
    \A k \in 1..Len(q) : SameLetter(CharAt(s, i + k), CharAt(q, k))

\* the task passes the status filter and the search of the store
PassesView(task) ==
  /\ CASE filter = "all" -> TRUE
        [] filter = "active" -> ~task.completed
        [] filter = "completed" -> task.completed
  /\ \/ searchQuery = ""
     \/ OccursIgnoringCase(task.title, searchQuery)
     \/ OccursIgnoringCase(task.description, searchQuery)

\* C19: the displayed list is exactly the tasks that pass the status filter
\* (all; active: not completed; completed: completed) and the search (empty
\* query, or the query occurs in the title or the description with the case
\* of letters ignored), in the order of the store.
C19_DisplayedTasks ==
  LET shown == filteredTasks(tasks, filter, searchQuery)
      passing == SelectSeq([i \in 1..Len(tasks) |-> i],
                           LAMBDA i : PassesView(tasks[i]))
  IN  /\ Len(shown) = Len(passing)
      /\ \A k \in 1..Len(passing) : shown[k] = tasks[passing[k]]

\* the default tasks with filter "active" and the query "crud": the one
\* active task with CRUD in its title is shown, the completed task and the
\* active task without it are hidden
C19_Witness ==
  /\ filter = "active"
  /\ searchQuery = "crud"
  /\ Len(tasks) = 3
  /\ tasks[1].completed
  /\ filteredTasks(tasks, filter, searchQuery) = <<tasks[3]>>

\* C20: loading from storage returns exactly the stored records that are
\* valid tasks, in stored order: an invalid record is dropped and the valid
\* records of the same document are kept.
C20_LoadKeepsValidRecords ==
  [][ ( /\ Dispatched({"loadTasksFromStorage"})
        /\ storage.data # <<>>
        /\ storage.version = STORAGE_VERSION
        /\ Parses(storage.data[1]) )
        => tasks' = SelectSeq(storage.data[1].tasks, isValidTask) ]_vars

\* C21: a reload that cannot read the stored document (storage access
\* throws, or the value under the key does not parse) sets the load-failure
\* error and leaves the task list as it was.
ReadFails ==
  \/ storage = AccessDenied
  \/ /\ storage.data # <<>>
     /\ storage.version = STORAGE_VERSION
     /\ ~Parses(storage.data[1])

C21_ReadFailureKeepsTasks ==
  [][ (Dispatched({"loadTasksFromStorage"}) /\ ReadFails)
        => (error' = LoadFailedMsg /\ tasks' = tasks) ]_vars

\* C22: exporting a list of valid tasks and importing the exported text gives
\* the list back: same length, same order, same ids and same field values.
C22_ExportImportRoundTrip ==
  \A t \in Times :
    importTasksFromFile(exportTasks(tasks, t)) = [ok |-> TRUE, tasks |-> tasks]

\* a list with a title that holds quotes and a title that reads like a JSON
\* literal has been imported from its export
C22_Witness ==
  /\ action.type = "importTasks"
  /\ Len(tasks) = 2
  /\ tasks[1].title = ExportTitles[3]
  /\ tasks[2].title = ExportTitles[2]
  /\ tasks[1].dueDate = InvalidDate

\* C23: the effects and timers of the filter bar leave the store's
\* searchQuery as the user typed it: no step of the debounce logic replaces
\* the query by another value.
C23_DebounceKeepsTypedQuery ==
  [][ (effectDeps' # effectDeps \/ debounceTimer' # debounceTimer)
        => searchQuery' = searchQuery ]_vars

\* C24: at every instant and in every time zone, a task that is not
\* completed and whose due date is the local calendar day of that instant
\* is shown as 'Due today', and the statistics' due-today number is the
\* number of these tasks (so a completed task is never counted).
DueOn(ts, day) ==
  {i \in 1..Len(ts) : ~ts[i].completed /\ IsDate(ts[i].dueDate) /\ ts[i].dueDate = day}

C24_DueTodayAllDay ==
  \A n \in Instants, tz \in TimeZoneOffsets :
    LET today == toDateString(n, tz)
    IN  /\ calculateTaskStats(tasks, n, tz).dueToday = Cardinality(DueOn(tasks, today))
        /\ \A i \in DueOn(tasks, today) : dueLabel(tasks[i], n, tz) = "Due today"

\* C25: a submit of the task form whose data fails validation adds no task,
\* updates no task and leaves the form open: the store and the form's data
\* are as before and the form is still shown for the same task.
C25_InvalidSubmitChangesNothing ==
  [][ ( /\ event'.name = "handleSubmit"
        /\ DOMAIN validateForm(formData, event'.instant, event'.offset) # {} )
        => ( /\ tasks' = tasks
             /\ UNCHANGED <<store, formData, editingTask>>
             /\ showForm' ) ]_vars

\* a form with a title of two characters has been submitted: the message is
\* shown, the form is open and nothing was dispatched
C25_Witness ==
  /\ event.name = "handleSubmit"
  /\ showForm
  /\ formData.title = "ab"
  /\ "title" \in DOMAIN validationErrors
  /\ steps = 0

\* C26: title validation accepts a title exactly when its trimmed length is
\* at least 3 and less than 100: after every submit the title has no message
\* if and only if its trimmed length is in that range.
C26_TitleLengthRange ==
  [][ event'.name = "handleSubmit"
        => ( ("title" \notin DOMAIN validationErrors')
               <=> ( /\ Len(trim(formData.title)) >= 3
                     /\ Len(trim(formData.title)) < 100 ) ) ]_vars

\* C27: whenever the store's error is set it is cleared again without any
\* user action: error # null leads to error = null.
C27_ErrorIsClearedAutomatically ==
  (error # NoError) ~> (error = NoError)

\* the document of the last successful write is in storage, unharmed
Intact(st) ==
  /\ st.version = STORAGE_VERSION
  /\ st.data # <<>>
  /\ Parses(st.data[1])
  /\ isValidStorageData(st.data[1])

Started == steps' = steps + 1 /\ action'.type = "@@INIT"

\* C28: when the application starts and storage holds an intact document,
\* the initial task list is the persisted list, also when that list is
\* empty.
C28_StartShowsPersistedList ==
  [][ (Started /\ Intact(storage)) => tasks' = storage.data[1].tasks ]_vars

\* C29: the deleteTask that a confirmed delete dispatches after its delay
\* removes that task and does not set the not-found error, whatever other
\* operations ran during the delay.
C29_DelayedDeleteRemovesTask ==
  [][ Dispatched({"deleteTask"})
        => ( /\ action'.id \in IdsOf(tasks)
             /\ action'.id \notin IdsOf(tasks')
             /\ error' # NotFoundMsg ) ]_vars

\* C30: the selection of the task list holds only ids of displayed tasks.
C30_SelectionIsDisplayed ==
  Range(selectedTasks) \subseteq IdsOf(Displayed)

====
